---- MODULE Spec2Model ----
(***************************************************************************)
(* Model of the bot pool scheduler of chat-api (src/botmgr.py, with the    *)
(* parts of src/bot.py and src/models.py it drives).                        *)
(*                                                                         *)
(* Time is in whole seconds.  An access token is modelled by what the code *)
(* reads from it: 0 is "no token" (None or '') and n > 0 is a JWT whose    *)
(* exp is n.  A conversation id                                            *)
(* is a positive number, None is 0 and the empty string '' is -1; a        *)
(* message id is a positive number, None is 0 and a uuid4 generated by the *)
(* client for a new thread is -1.                                          *)
(***************************************************************************)
EXTENDS Integers, Sequences, FiniteSets, TLC

\* ------------------------------------------------------------------ bounds
MaxHours == 2
MaxTurns == 2
MaxTimeout == 1
MaxFaults == 4
MaxLines == 3

\* ------------------------------------------------------ program constants
PerMinuteAmount == 1
PerHourAmount == 60
MinuteSecs == 60
HourSecs == 3600
RefreshMargin == 3600
LoginWindow == 86400
CheckPeriod == 3600
MaxRetry == 3

\* ------------------------------------------------------------- value sets
Accounts == <<"a@x", "b@x">>
Emails == {Accounts[i] : i \in 1..Len(Accounts)}
SlotOrder == <<"r1", "r2">>
Slots == {SlotOrder[i] : i \in 1..Len(SlotOrder)}
Users == {"u1"}
NoEmail == "None"
NoOpenid == "None"
NoToken == 0
None == 0
EmptyStr == -1
NoRow == -2
FreshUuid == -1
Off == -1
ErrCodes == {404, 429, 500}
LoginSleeps == {k * MinuteSecs : k \in 1..5}
HealthyLife == 10 * LoginWindow
MaxNow == MaxHours * HourSecs

VARIABLES
    now,        \* time.time()
    accounts,   \* ApiBotManager.accounts: email -> [access_token, puid]
    pool,       \* ApiBotManager.apibot_pool, in insertion order
    wait_auth,  \* ApiBotManager.wait_auth, in dict order: <<email, seconds>>
    nextCheck,  \* when check_account_task's sleep ends
    nextLogin,  \* when login_task's sleep ends (Off: the loop is not followed)
    hits,       \* the moving-window store: key -> timestamps, newest first
    req,        \* the in-flight prompt() calls, one per slot
    users,      \* table users: openid -> conversation_id (NoRow: no row)
    convs,      \* table conversations: conversation_id -> row
    nextId,     \* the next id the upstream hands out
    calls,      \* per account, start times of upstream calls in the last hour
    turns,      \* slots handed back so far
    faults,     \* exceptions other than OpenAIError raised so far
    stream,     \* one __send_request generator reading its response lines
    logins,     \* login_task: time of the last get_access_token call, and
                \* the number of such calls in the latest iteration
    session,    \* one AsyncBot: its support_models, and what its latest
                \* streaming call and the latest update_account did
    completion, \* one /v1/chat/completions exchange
    store,      \* table accounts beyond the account map, and what the
                \* latest add_account call did
    lock        \* wait_auth_lock: its holder while suspended, and the
                \* entry login_task is on

lifeVars == <<accounts, wait_auth, nextCheck, nextLogin>>
dbVars == <<users, convs>>
reqVars == <<hits, req, nextId, calls, turns, faults>>
mgrVars == <<now, pool, lifeVars, dbVars, reqVars, logins>>
vars == <<mgrVars, stream, session, completion, store, lock>>

\* ---------------------------------------------------------------- helpers
Min(a, b) == IF a <= b THEN a ELSE b

IndexOf(s, e) == CHOOSE i \in 1..Len(s) : s[i].email = e

InPool(p, e) == \E i \in 1..Len(p) : p[i].email = e

\* A pop that is not followed by the reinsert.
PopWithoutReinsert(p, e) == SelectSeq(p, LAMBDA b : b.email # e)

\* A lookup that leaves the entry where it is.
PopReinsertInPlace(p, e) == p

\* dict.pop(key) followed by dict[key] = value: the entry moves to the tail.
PopReinsert(p, e) ==
    LET i == IndexOf(p, e)
    IN  SubSeq(p, 1, i - 1) \o SubSeq(p, i + 1, Len(p)) \o <<p[i]>>

\* ------------------------------------------------------------ rate limiter
\* Entries of the window: timestamps not older than `expiry` seconds.
WindowCount(log, t, expiry) ==
    Cardinality({i \in 1..Len(log) : log[i] >= t - expiry})

\* moving_window.test(rate_limit_per_hour, 'botmgr', key)
test_limit(log, t) == WindowCount(log, t, HourSecs) < PerHourAmount

\* moving_window.hit(rate_limit_per_hour, 'botmgr', key): the entry is
\* refused when the amount-th newest entry is still inside the window;
\* otherwise it is pushed and the list trimmed to `amount` entries.
hit_limit(log, t) ==
    IF Len(log) >= PerHourAmount /\ log[PerHourAmount] >= t - HourSecs
    THEN [ok |-> FALSE, log |-> log]
    ELSE [ok |-> TRUE,
          log |-> SubSeq(<<t>> \o log, 1,
                         IF Len(log) + 1 > PerHourAmount
                         THEN PerHourAmount ELSE Len(log) + 1)]

\* ------------------------------------------------------------------ tokens
\* ApiBotManager.token_expire: exp of the JWT, 0 when it does not decode.
token_expire(tok) == IF tok > 0 THEN tok ELSE 0

\* Bot.update: a falsy token or puid leaves the field as it is.
BotUpdate(bot, tok, puid) ==
    [bot EXCEPT !.access_token = IF tok # NoToken THEN tok ELSE @,
                !.puid = IF puid > 0 THEN puid ELSE @]

\* A constructor that accepts any token.
check_access_token_lenient(tok, t) == "ok"

\* Bot.check_access_token, run by the constructor at time t.
check_access_token(tok, t) ==
    IF tok <= 0 THEN "invalid_token"
    ELSE IF tok < t THEN "token_expired" ELSE "ok"

\* A pool that refuses every session.
update_bot_absent(p, e, tok, puid) == p

\* ApiBotManager.update_bot: update the session in place, or construct one
\* and append it to the pool.
update_bot(p, e, tok, puid) ==
    IF InPool(p, e)
    THEN [p EXCEPT ![IndexOf(p, e)] = BotUpdate(@, tok, puid)]
    ELSE Append(p, [email |-> e, access_token |-> tok, puid |-> puid])

\* update_bot at time t, with the exception the AsyncBot constructor
\* raises from check_access_token when the email has no session yet.
update_bot_checked(p, e, tok, puid, t) ==
    IF ~InPool(p, e) /\ check_access_token(tok, t) # "ok"
    THEN [pool |-> p, error |-> check_access_token(tok, t)]
    ELSE [pool |-> update_bot(p, e, tok, puid), error |-> "none"]

\* ApiBotManager.remove_bot is a coroutine function; check_account calls it
\* without await, so its body (close the session, delete the entry) is
\* never run and the pool is left as it is.
remove_bot_unawaited(p, e) == p

\* wait_auth[email] = value: an existing key keeps its place.
DictSet(d, e, v) ==
    IF \E i \in 1..Len(d) : d[i][1] = e
    THEN [i \in 1..Len(d) |-> IF d[i][1] = e THEN <<e, v>> ELSE d[i]]
    ELSE Append(d, <<e, v>>)

\* del wait_auth[email]
DictDel(d, e) == SelectSeq(d, LAMBDA x : x[1] # e)

\* The entries login_task does not skip: the account is known (every key of
\* wait_auth is) and the recorded seconds are at most LoginWindow.
LoginCandidates(d) == {i \in 1..Len(d) : ~(d[i][2] > LoginWindow)}

\* A loop that logs in the last entry it does not skip.
FirstCandidateLast(d) ==
    CHOOSE i \in LoginCandidates(d) : \A j \in LoginCandidates(d) : i >= j

\* The entry its for loop reaches first.
FirstCandidate(d) ==
    CHOOSE i \in LoginCandidates(d) : \A j \in LoginCandidates(d) : i <= j

\* A for loop that goes on to the next entry after a login.
RoundLoginsNoBreak(d) == LoginCandidates(d)

\* The entries one pass of login_task's for loop calls get_access_token
\* for: it leaves the loop at the first one, by `break` after a success
\* and by the exception after a failure.
RoundLogins(d) ==
    IF LoginCandidates(d) = {} THEN {} ELSE {FirstCandidate(d)}

\* What Auth0.get_access_token returns at time t: a token the upstream has
\* just issued, good for days.
NewTokens(t) == {2 * HealthyLife}

\* sorted(items, key=value): stable insertion sort.
RECURSIVE SortedByValue(_)
SortedByValue(d) ==
    IF Len(d) <= 1 THEN d
    ELSE LET rest == SortedByValue(SubSeq(d, 1, Len(d) - 1))
             x == d[Len(d)]
             k == Cardinality({i \in 1..Len(rest) : rest[i][2] <= x[2]})
         IN  SubSeq(rest, 1, k) \o <<x>> \o SubSeq(rest, k + 1, Len(rest))

\* The loop body of check_account for the i-th account and its successors.
RECURSIVE CheckFromMap(_, _, _, _)
CheckFromMap(acc, i, p, d) ==
    IF i > Len(Accounts) THEN [pool |-> p, wait_auth |-> d]
    ELSE LET e == Accounts[i]
         IN  IF e \notin DOMAIN acc THEN CheckFromMap(acc, i + 1, p, d)
             ELSE LET tok == acc[e].access_token
                      exp == token_expire(tok)
                  IN  IF tok = NoToken
                      THEN CheckFromMap(acc, i + 1, p, DictSet(d, e, 0))
                      ELSE IF exp - now < RefreshMargin
                      THEN CheckFromMap(acc, i + 1, remove_bot_unawaited(p, e),
                                        DictSet(d, e, exp - now))
                      ELSE CheckFromMap(acc, i + 1,
                                        update_bot(p, e, tok, acc[e].puid),
                                        DictSet(d, e, exp - now))

\* check_account over self.accounts.
CheckFrom(i, p, d) == CheckFromMap(accounts, i, p, d)

\* --------------------------------------------------------------- database
\* User.conversation: the row joined on users.conversation_id.
UserConversation(us, cs, openid) ==
    IF us[openid] # NoRow /\ us[openid] \in DOMAIN cs
    THEN us[openid] ELSE None

\* User.get_chat_info
get_chat_info(us, cs, openid) ==
    LET c == UserConversation(us, cs, openid)
    IN  IF c # None
        THEN [email |-> cs[c].owner_email, conversation_id |-> c,
              parent_id |-> cs[c].current_node]
        ELSE [email |-> NoEmail, conversation_id |-> None, parent_id |-> None]

NewConversationRow(cs, cid, pid, email, openid) ==
    [c \in DOMAIN cs \cup {cid} |->
        IF c = cid
        THEN [current_node |-> pid, owner_email |-> email, user |-> openid]
        ELSE cs[c]]

\* ApiBotManager.record_chat, as one transaction.  user.conversation is the
\* row that was joined when the user was loaded, i.e. for the conversation
\* id the user had before this turn.
record_chat(us, cs, email, openid, cid, pid) ==
    IF us[openid] = NoRow
    THEN [users |-> [us EXCEPT ![openid] = cid],
          convs |-> NewConversationRow(cs, cid, pid, email, openid)]
    ELSE LET old == UserConversation(us, cs, openid)
         IN  [users |-> [us EXCEPT ![openid] = cid],
              convs |-> IF old # None
                        THEN [cs EXCEPT ![old].current_node = pid]
                        ELSE NewConversationRow(cs, cid, pid, email, openid)]

\* ApiBotManager.new_conversation
new_conversation(us, openid) ==
    IF us[openid] # NoRow THEN [us EXCEPT ![openid] = EmptyStr] ELSE us

\* ------------------------------------------------------------ the session
\* AsyncBot.ask: the body it posts.  "TypeError" when exactly one of
\* conversation_id and parent_id is set.
ask(cid, pid) ==
    IF (pid # None) # (cid # None)
    THEN [error |-> TRUE, conversation_id |-> cid, parent_message_id |-> pid]
    ELSE [error |-> FALSE, conversation_id |-> cid,
          parent_message_id |-> IF pid # None THEN pid ELSE FreshUuid]

\* ------------------------------------------------------ the event stream
\* A response line is modelled by what __send_request reads from it:
\*   form    "empty", "ise" (the text "internal server error" in any case),
\*           "done" ("[DONE]"), "garbage" (not JSON) or "json";
\*   prefix  whether the line starts with "data: ";
\*   val     for JSON, the shape of the value: "number", "null", or an
\*           object: "no_message" (no key message), "null_message"
\*           (message: null), "no_content" (message without content),
\*           "no_author" (message without author), "role_user",
\*           "no_conversation_id", "no_id" (assistant objects lacking that
\*           key), "assistant" (a complete assistant object);
\*   text    content.parts[0], a string of characters ("nl" is a newline);
\*   finish  metadata.finish_details.type.
Texts == {<<"x">>, <<"nl", "y", "nl">>}

\* An assistant text in which the characters "data: " occur.
QuotingText == <<"x", "data: ">>

Finishes == {"stop", "max_tokens"}

JsonShapes ==
    {"number", "null", "no_message", "null_message", "no_content",
     "no_author", "role_user", "no_conversation_id", "no_id"}

Line(form, prefix, val, text, finish) ==
    [form |-> form, prefix |-> prefix, val |-> val, text |-> text,
     finish |-> finish]

Lines ==
    {Line("empty", FALSE, "", <<>>, ""), Line("ise", FALSE, "", <<>>, ""),
     Line("garbage", TRUE, "", <<>>, "")}
    \cup {Line("done", p, "", <<>>, "") : p \in BOOLEAN}
    \cup {Line("json", TRUE, v, <<>>, "") : v \in JsonShapes}
    \cup {Line("json", TRUE, "assistant", t, f) : t \in Texts, f \in Finishes}
    \cup {Line("json", p, "assistant", QuotingText, "stop") : p \in BOOLEAN}
    \cup {Line("json", FALSE, "assistant", <<"x">>, "stop")}

\* `"data: " in line`: a substring test, true of a line that starts with
\* the prefix and of one that has the characters anywhere in its text.
HasDataMarker(l) ==
    l.prefix \/ \E i \in 1..Len(l.text) : l.text[i] = "data: "

\* `line = line[6:]`: the prefix goes from a line that starts with it; a
\* line that does not loses its first six characters, and what is left of
\* a JSON object without its opening brace does not decode.
StripPrefix(l) ==
    IF l.prefix THEN [l EXCEPT !.prefix = FALSE] ELSE [l EXCEPT !.form = "garbage"]

\* json.loads(line): what is left of an empty or "internal server error"
\* line after its prefix went does not decode either.
Decodes(l) == l.form = "json"

\* A check that takes every parsed value for a well-formed object.
check_fields_lenient(val) == "True"

\* Bot.check_fields: data["message"]["content"], KeyError -> False.  A
\* value that is not a dict, or a message that is None, raises TypeError,
\* which it does not catch.
check_fields(val) ==
    IF val \in {"number", "null", "null_message"} THEN "TypeError"
    ELSE IF val \in {"no_message", "no_content"} THEN "False"
    ELSE "True"

\* A parser that delivers every object that passed check_fields.
RoleOfAnyIsAssistant(val) == "assistant"

\* line.get("message").get("author").get("role")
RoleOf(val) ==
    IF val = "no_author" THEN "AttributeError"
    ELSE IF val = "role_user" THEN "user"
    ELSE "assistant"

\* cid = line["conversation_id"]; pid = line["message"]["id"]
ReadIds(val) ==
    IF val \in {"no_conversation_id", "no_id"} THEN "KeyError" ELSE "ok"

StepResult(kind, error) == [kind |-> kind, error |-> error]

\* A loop that reads on after "[DONE]".
IsDoneNever(l) == FALSE

\* `if line == "[DONE]": break`
IsDone(l) == l.form = "done"

\* One pass of the `async for line` body of __send_request.
ParseLine(raw) ==
    IF raw.form = "ise" /\ ~raw.prefix
    THEN StepResult("fail", "internal_server_error")
    ELSE IF raw.form = "empty" /\ ~raw.prefix THEN StepResult("skip", "")
    ELSE LET l == IF HasDataMarker(raw) THEN StripPrefix(raw) ELSE raw
         IN  IF IsDone(l) THEN StepResult("done", "")
             ELSE IF ~Decodes(l) THEN StepResult("skip", "")
             ELSE IF check_fields(l.val) = "TypeError"
             THEN StepResult("raise", "TypeError")
             ELSE IF check_fields(l.val) = "False"
             THEN StepResult("fail", "invalid_response")
             ELSE IF RoleOf(l.val) = "AttributeError"
             THEN StepResult("raise", "AttributeError")
             ELSE IF RoleOf(l.val) # "assistant" THEN StepResult("skip", "")
             ELSE IF ReadIds(l.val) # "ok"
             THEN StepResult("raise", ReadIds(l.val))
             ELSE StepResult("event", "")

\* The keyword arguments __send_request passes to continue_write, and the
\* parameters of continue_write that have no default.
ContinueArgs ==
    {"conversation_id", "model", "timeout", "auto_continue",
     "history_and_training_disabled"}

ContinueRequired == {"conversation_id", "parent_id", "model"}

\* The code after the loop: return unless a continuation is due; else
\* call continue_write, which raises TypeError when a required parameter
\* is not passed.
AfterLoop(s) ==
    LET fd == IF s.events = <<>> THEN "" ELSE s.events[Len(s.events)].finish_details
    IN  IF ~(s.auto_continue /\ fd = "max_tokens")
        THEN [s EXCEPT !.status = "ok"]
        ELSE IF ContinueRequired \subseteq ContinueArgs
        THEN [s EXCEPT !.status = "continue"]
        ELSE [s EXCEPT !.status = "raised", !.error = "TypeError",
                       !.at = "continue"]

\* ------------------------------------------------------------- scheduler
\* A lookup that treats every request as unpinned.
IsPinnedNever(email) == FALSE

\* `if email:` in get_available_apibot.
IsPinned(email) == email # NoEmail

\* A prompt() that resolves the anchor even for new_chat.
UsesAnchorAlways(openid, new_chat) == openid # NoOpenid

\* `if openid and not new_chat:` in prompt().
UsesAnchor(openid, new_chat) == openid # NoOpenid /\ ~new_chat

\* A mapping that forgets the 429 case.
ClassifyWithout429(code) ==
    IF code = 404 THEN "conversation_not_found" ELSE "server_error"

\* The mapping of an OpenAIError to work()'s reason.
Classify(code) ==
    IF code = 404 THEN "conversation_not_found"
    ELSE IF code = 429 THEN "too_many_requests"
    ELSE "server_error"

\* A loop that retries without end.
RetryExhaustedNever(retry) == FALSE

\* An off-by-one in the retry test.
RetryExhaustedEarly(retry) == retry >= MaxRetry

\* `if retry > 3: break` in work().
RetryExhausted(retry) == retry > MaxRetry

\* A wait loop that gives up at the first miss.
CanWaitNever(timeout) == FALSE

\* `if timeout > 0:` in work(), when no session was returned.
CanWait(timeout) == timeout > 0

\* The reason on which prompt() clears the anchor.
ClearsAnchor(reason) == reason = "conversation_missing"

NullInfo == [email |-> NoEmail, conversation_id |-> None, parent_id |-> None]

IdleReq ==
    [pc |-> "idle", openid |-> NoOpenid, new_chat |-> FALSE, timeout |-> 0,
     timeout0 |-> 0, waits |-> 0, api |-> FALSE, http |-> 0, raised |-> "",
     email |-> NoEmail, conversation_id |-> None, parent_id |-> None,
     retry |-> 0, cnt |-> 0, cur |-> NoEmail, tested |-> <<>>,
     apibot |-> NoEmail, message |-> "", iters |-> 0,
     hitOk |-> TRUE, nsel |-> 0, ncalls |-> 0, err |-> -1,
     sent |-> [conversation_id |-> None, parent_message_id |-> None],
     resp |-> NullInfo, reason |-> "", info |-> NullInfo]

OffReq == [IdleReq EXCEPT !.pc = "off"]

\* What escapes the core when work() has returned `reason`.  prompt()
\* returns "" on a failure.  api_request() calls resp.pop("email", None)
\* before it tests resp: on a failure resp is False and bool has no pop.
CoreRaises(api, reason) ==
    IF api /\ reason # "success" THEN "AttributeError" ELSE ""

\* The status the endpoint answers with: 404 "No response found" for an
\* empty result, 500 from the framework for an exception it did not raise.
EndpointStatus(api, reason) ==
    IF CoreRaises(api, reason) # "" THEN 500
    ELSE IF reason = "success" THEN 200 ELSE 404

\* A prompt() that hands the text back without awaiting record_chat.
RecordsChatNever(openid) == FALSE

\* prompt() awaits record_chat before its return statement, and record_chat
\* returns before touching the database only when there is no openid.
RecordsChat(openid) == openid # NoOpenid

\* The core returns; info is what get_chat_info(openid) gives at that moment.
Returned(r, reason, us, cs) ==
    [r EXCEPT !.pc = "done", !.reason = reason, !.cnt = 0, !.cur = NoEmail,
              !.tested = <<>>,
              !.raised = CoreRaises(r.api, reason),
              !.http = EndpointStatus(r.api, reason),
              !.info = IF r.openid # NoOpenid
                       THEN get_chat_info(us, cs, r.openid) ELSE NullInfo]

\* work() returned (False, reason) with locals r: prompt()'s else branch.
Fail(w, r, reason) ==
    LET us == IF r.openid # NoOpenid /\ ClearsAnchor(reason)
              THEN new_conversation(users, r.openid) ELSE users
    IN  /\ users' = us
        /\ req' = [req EXCEPT ![w] = Returned(r, reason, us, convs)]

\* work() found no session: sleep one second if the budget allows, else
\* return (False, "timeout").
NoBot(w) ==
    IF CanWait(req[w].timeout)
    THEN /\ req' = [req EXCEPT ![w].pc = "sleep", ![w].cnt = 0,
                                ![w].cur = NoEmail, ![w].tested = <<>>]
         /\ users' = users
    ELSE Fail(w, req[w], "timeout")

\* A retry that starts over with the full timeout.
OnExceptionResetsTimeout(w) ==
    LET r == [req[w] EXCEPT !.retry = @ + 1, !.timeout = @ + req[w].waits]
    IN  IF RetryExhausted(r.retry)
        THEN Fail(w, r, "max_retry")
        ELSE /\ req' = [req EXCEPT ![w] = [r EXCEPT !.pc = "select",
                                                      !.iters = @ + 1]]
             /\ users' = users

\* work()'s `except Exception` branch.
OnException(w) ==
    LET r == [req[w] EXCEPT !.retry = @ + 1]
    IN  IF RetryExhausted(r.retry)
        THEN Fail(w, r, "max_retry")
        ELSE /\ req' = [req EXCEPT ![w] = [r EXCEPT !.pc = "select",
                                                      !.iters = @ + 1]]
             /\ users' = users

\* login_task has not called get_access_token yet.
NoLogins == [last |-> Off, round |-> 0, failed |-> FALSE]

\* An AsyncBot as its constructor leaves it (support_models = []), before
\* any call.
NewSession ==
    [support_models |-> {},
     call |-> [model |-> "", learned |-> {}, gets |-> 0, posts |-> 0,
               result |-> "none"],
     built |-> [email |-> NoEmail, token |-> NoToken, had |-> FALSE,
                before |-> <<>>, error |-> "none"]]

\* Every row of table accounts is in the account map, and add_account has
\* not been called.
NoAdds ==
    [inactive |-> {}, n |-> 0, call |-> [email |-> NoEmail, checked |-> FALSE]]

\* wait_auth_lock is free; no task is suspended inside `async with`.
FreeLock == [holder |-> "none", email |-> NoEmail, waited |-> FALSE]

\* No completion request has been made.
NoCompletion == [stage |-> "idle"]

\* No response is being read.
IdleStream ==
    [lines |-> <<>>, auto_continue |-> FALSE, pos |-> 0, events |-> <<>>,
     status |-> "idle", error |-> "", at |-> ""]

\* The state the model starts from: the manager after init() loaded
\* `tokens`, before the first check_account; the rate-limit store holds
\* `prior`; the slots in `active` will carry a call.
InitWith(tokens, prior, active, login) ==
    /\ stream = IdleStream
    /\ session = NewSession
    /\ store = NoAdds
    /\ lock = FreeLock
    /\ completion = NoCompletion
    /\ logins = NoLogins
    /\ now = 0
    /\ accounts = [e \in Emails |-> [access_token |-> tokens[e], puid |-> None]]
    /\ pool = <<>>
    /\ wait_auth = <<>>
    /\ nextCheck = 0
    /\ nextLogin = login
    /\ hits = prior
    /\ req = [w \in Slots |-> IF w \in active THEN IdleReq ELSE OffReq]
    /\ users = [u \in Users |-> NoRow]
    /\ convs = <<>>
    /\ nextId = 1
    /\ calls = [e \in Emails |-> <<>>]
    /\ turns = 0
    /\ faults = 0

HealthyTokens == [e \in Emails |-> HealthyLife]

\* The store as other traffic left it: a@x one hit short of its hourly limit.
PriorHits ==
    [e \in Emails |-> IF e = Accounts[1]
                      THEN [i \in 1..(PerHourAmount - 1) |-> 0] ELSE <<>>]

Init == InitWith(HealthyTokens, PriorHits, Slots, Off)

\* The next moment a background loop wakes up.
Deadline == IF nextLogin = Off THEN nextCheck ELSE Min(nextCheck, nextLogin)

\* Time passes until the next loop is due; the call log keeps the starts of
\* the last hour.
Tick ==
    /\ Deadline > now
    /\ Deadline <= MaxNow
    /\ now' = Deadline
    /\ calls' = [e \in Emails |->
                    SelectSeq(calls[e], LAMBDA t : t >= Deadline - HourSecs)]
    /\ UNCHANGED <<logins, stream, session, completion, store, lock, pool, lifeVars, dbVars, hits, req, nextId, turns, faults>>

\* One round of check_account_task: check_account(), then sleep an hour.
CheckAccount ==
    /\ now >= nextCheck
    /\ LET r == CheckFrom(1, pool, wait_auth)
       IN  /\ pool' = r.pool
           /\ wait_auth' = SortedByValue(r.wait_auth)
    /\ nextCheck' = now + CheckPeriod
    /\ UNCHANGED <<logins, stream, session, completion, store, lock, now, accounts, nextLogin, dbVars, reqVars>>

\* What a round of login_task leaves in `logins`.
LoginRecord(failed) ==
    [last |-> IF RoundLogins(wait_auth) = {} THEN logins.last ELSE now,
     round |-> Cardinality(RoundLogins(wait_auth)),
     failed |-> failed]

\* One round of login_task, under wait_auth_lock: at most one login, then
\* sleep one to five minutes.  The first round runs after the first check
\* (init() creates check_account_task first).
LoginSkip ==
    /\ LoginCandidates(wait_auth) = {}
    /\ logins' = LoginRecord(FALSE)
    /\ UNCHANGED <<accounts, pool, wait_auth>>

\* A failed login that takes the entry off the backlog all the same.
LoginFailsDropsEntry ==
    /\ LoginCandidates(wait_auth) # {}
    /\ logins' = LoginRecord(TRUE)
    /\ wait_auth' = DictDel(wait_auth, wait_auth[FirstCandidate(wait_auth)][1])
    /\ UNCHANGED <<accounts, pool>>

\* get_access_token raises: the exception leaves the for loop and the
\* `async with`, is logged by `except Exception`, and `finally` sleeps.
LoginFails ==
    /\ LoginCandidates(wait_auth) # {}
    /\ logins' = LoginRecord(TRUE)
    /\ UNCHANGED <<accounts, pool, wait_auth>>

\* update_account raises after it changed the account record: in
\* update_bot, when the constructor refuses the token, or in the commit
\* that follows update_bot.  `del wait_auth[email]` is not reached.
LoginUpdateFails ==
    /\ LoginCandidates(wait_auth) # {}
    /\ logins' = LoginRecord(TRUE)
    /\ LET e == wait_auth[FirstCandidate(wait_auth)][1]
       IN  \E tok \in NewTokens(now) :
              /\ accounts' = [accounts EXCEPT ![e] =
                                 [access_token |-> tok, puid |-> EmptyStr]]
              /\ pool' = update_bot_checked(pool, e, tok, EmptyStr, now).pool
              /\ wait_auth' = wait_auth

\* update_account(email, token, "") returns, then del wait_auth[email].
LoginSucceeds ==
    /\ LoginCandidates(wait_auth) # {}
    /\ logins' = LoginRecord(FALSE)
    /\ LET e == wait_auth[FirstCandidate(wait_auth)][1]
       IN  \E tok \in NewTokens(now) :
              LET r == update_bot_checked(pool, e, tok, EmptyStr, now)
              IN  /\ r.error = "none"
                  /\ accounts' = [accounts EXCEPT ![e] =
                                     [access_token |-> tok, puid |-> EmptyStr]]
                  /\ pool' = r.pool
                  /\ wait_auth' = DictDel(wait_auth, e)

Login ==
    /\ nextLogin # Off
    /\ now >= nextLogin
    /\ nextCheck > 0
    /\ \E s \in LoginSleeps : nextLogin' = now + s
    /\ (LoginSkip \/ LoginFails \/ LoginUpdateFails \/ LoginSucceeds)
    /\ UNCHANGED <<stream, session, completion, store, lock, now, nextCheck, dbVars, reqVars>>

\* How long the blocking call Auth.get_access_token, run in a thread, may
\* take: no time, or an hour.
LoginDurations == {0, HourSecs}

\* One round of login_task with an upstream that never refuses a login.
\* The round holds wait_auth_lock from its first line until the entry is
\* deleted, so a health check that falls due while get_access_token is
\* running starts after the round; time.time() has moved on by the
\* duration of the call when update_account runs.
LoginUpstreamUp ==
    /\ nextLogin # Off
    /\ now >= nextLogin
    /\ nextCheck > 0
    /\ IF LoginCandidates(wait_auth) = {}
       THEN /\ now' = now
            /\ logins' = [logins EXCEPT !.round = 0, !.failed = FALSE]
            /\ UNCHANGED <<accounts, pool, wait_auth>>
       ELSE \E d \in LoginDurations :
              /\ now + d <= MaxNow
              /\ now' = now + d
              /\ logins' = [last |-> now, round |-> 1, failed |-> FALSE]
              /\ LET e == wait_auth[FirstCandidate(wait_auth)][1]
                 IN  \E tok \in NewTokens(now + d) :
                        /\ accounts' = [accounts EXCEPT ![e] =
                               [access_token |-> tok, puid |-> EmptyStr]]
                        /\ IF /\ ~InPool(pool, e)
                              /\ check_access_token(tok, now + d) # "ok"
                           THEN UNCHANGED <<pool, wait_auth>>
                           ELSE /\ pool' = update_bot(pool, e, tok, EmptyStr)
                                /\ wait_auth' = DictDel(wait_auth, e)
    /\ \E s \in LoginSleeps : nextLogin' = now' + s
    /\ UNCHANGED <<stream, session, completion, store, lock, nextCheck, dbVars, reqVars>>

\* prompt(message, model, openid, new_chat, timeout) is called.  With an
\* openid and without new_chat it first awaits get_chat_info; otherwise it
\* enters work() unpinned.  Slots are taken in order.
StartPrompt(w) ==
    /\ req[w].pc = "idle"
    /\ \E i \in 1..Len(SlotOrder) :
          /\ SlotOrder[i] = w
          /\ \A j \in 1..(i - 1) : req[SlotOrder[j]].pc # "idle"
    /\ \E o \in Users \cup {NoOpenid}, nc \in BOOLEAN, t \in {0, MaxTimeout} :
          req' = [req EXCEPT ![w] =
                    [IdleReq EXCEPT !.openid = o, !.new_chat = nc, !.timeout = t,
                                    !.timeout0 = t,
                                    !.iters = IF UsesAnchor(o, nc) THEN 0 ELSE 1,
                                    !.pc = IF UsesAnchor(o, nc)
                                           THEN "chatinfo" ELSE "select"]]
    /\ UNCHANGED <<logins, stream, session, completion, store, lock, now, pool, lifeVars, dbVars, hits, nextId, calls, turns, faults>>

\* api_request(data) is called: work() with post_messages, unpinned, with
\* work()'s default timeout.
StartApi(w) ==
    /\ req[w].pc = "idle"
    /\ \E i \in 1..Len(SlotOrder) :
          /\ SlotOrder[i] = w
          /\ \A j \in 1..(i - 1) : req[SlotOrder[j]].pc # "idle"
    /\ req' = [req EXCEPT ![w] =
                 [IdleReq EXCEPT !.api = TRUE, !.timeout = MaxTimeout,
                                 !.timeout0 = MaxTimeout, !.iters = 1,
                                 !.pc = "select"]]
    /\ UNCHANGED <<logins, stream, session, completion, store, lock, now, pool, lifeVars, dbVars, hits, nextId, calls, turns, faults>>

\* get_chat_info returns; prompt() builds func and calls work().
ChatInfo(w) ==
    /\ req[w].pc = "chatinfo"
    /\ LET ci == get_chat_info(users, convs, req[w].openid)
       IN  req' = [req EXCEPT ![w].email = ci.email,
                              ![w].conversation_id = ci.conversation_id,
                              ![w].parent_id = ci.parent_id,
                              ![w].iters = 1,
                              ![w].pc = "select"]
    /\ UNCHANGED <<logins, stream, session, completion, store, lock, now, pool, lifeVars, dbVars, hits, nextId, calls, turns, faults>>

\* get_available_apibot up to its first await of test_limit.
Select(w) ==
    /\ req[w].pc = "select"
    /\ LET r == req[w]
       IN  IF IsPinned(r.email)
           THEN IF ~InPool(pool, r.email)
                THEN NoBot(w) /\ pool' = pool
                ELSE /\ pool' = PopReinsert(pool, r.email)
                     /\ req' = [req EXCEPT ![w].cur = r.email, ![w].pc = "test"]
                     /\ users' = users
           ELSE IF Len(pool) = 0
                THEN NoBot(w) /\ pool' = pool
                ELSE /\ pool' = PopReinsert(pool, pool[1].email)
                     /\ req' = [req EXCEPT ![w].cur = pool[1].email,
                                           ![w].cnt = Len(pool) - 1,
                                           ![w].pc = "test"]
                     /\ users' = users
    /\ UNCHANGED <<logins, stream, session, completion, store, lock, now, lifeVars, convs, hits, nextId, calls, turns, faults>>

\* test_limit returns.  A pass returns the session to work(), which awaits
\* hit_limit; a miss ends a pinned lookup and moves an unpinned one on.
Test(w) ==
    /\ req[w].pc = "test"
    /\ LET r == req[w]
       IN  IF test_limit(hits[r.cur], now)
           THEN /\ req' = [req EXCEPT ![w].apibot = r.cur, ![w].nsel = @ + 1,
                                      ![w].cnt = 0, ![w].cur = NoEmail,
                                      ![w].tested = <<>>, ![w].pc = "hit"]
                /\ pool' = pool
                /\ users' = users
           ELSE IF ~IsPinned(r.email) /\ r.cnt > 0
                THEN /\ pool' = PopReinsert(pool, pool[1].email)
                     /\ req' = [req EXCEPT ![w].cur = pool[1].email,
                                           ![w].tested = Append(@, r.cur),
                                           ![w].cnt = r.cnt - 1]
                     /\ users' = users
                ELSE NoBot(w) /\ pool' = pool
    /\ UNCHANGED <<logins, stream, session, completion, store, lock, now, lifeVars, convs, hits, nextId, calls, turns, faults>>

\* asyncio.sleep(1) ends: timeout -= 1 and the loop selects again.
Wake(w) ==
    /\ req[w].pc = "sleep"
    /\ req' = [req EXCEPT ![w].timeout = @ - 1, ![w].waits = @ + 1,
                           ![w].iters = @ + 1, ![w].pc = "select"]
    /\ UNCHANGED <<logins, stream, session, completion, store, lock, now, pool, lifeVars, dbVars, hits, nextId, calls, turns, faults>>

\* hit_limit returns (its result is dropped) and the operation is invoked on
\* the session: ask() posts its body upstream, or raises TypeError.
Hit(w) ==
    /\ req[w].pc = "hit"
    /\ LET r == req[w]
           h == hit_limit(hits[r.apibot], now)
           body == ask(r.conversation_id, r.parent_id)
       IN  /\ hits' = [hits EXCEPT ![r.apibot] = h.log]
           /\ IF body.error
              THEN OnException(w) /\ calls' = calls
              ELSE /\ req' = [req EXCEPT
                                ![w].hitOk = h.ok,
                                ![w].sent = [conversation_id |-> body.conversation_id,
                                             parent_message_id |-> body.parent_message_id],
                                ![w].ncalls = r.ncalls + 1,
                                ![w].pc = "exec"]
                   /\ calls' = [calls EXCEPT ![r.apibot] = Append(@, now)]
                   /\ users' = users
    /\ UNCHANGED <<logins, stream, session, completion, store, lock, now, pool, lifeVars, convs, nextId, turns, faults>>

\* The events a complete answer is streamed as: snapshots of one message.
Snapshots == <<"partial", "full">>

\* What the upstream may stream before the response ends without an
\* error: nothing, or a complete answer.
Streams == {<<>>, Snapshots}

\* A loop that keeps the first event it saw.
DrainKeepsFirst(evs) == IF evs = <<>> THEN "" ELSE evs[1]

\* `resp = None; async for resp in exec(**func): resp = resp`: the message
\* of the event the loop variable holds when the stream is drained ("" when
\* resp is still None).
Drain(evs) == IF evs = <<>> THEN "" ELSE evs[Len(evs)]

\* An assignment that works on None as well.
SetEmailOnNone(resp, email) ==
    [error |-> FALSE, resp |-> [resp EXCEPT !.email = email]]

\* `resp["email"] = apibot.email`: TypeError when the loop never ran and
\* resp is still None.
SetEmail(resp, email) ==
    IF resp = NullInfo THEN [error |-> TRUE, resp |-> resp]
    ELSE [error |-> FALSE, resp |-> [resp EXCEPT !.email = email]]

\* The event the loop variable holds after draining evs.  Every snapshot
\* carries the ids of the thread: a new thread gets a new conversation id
\* from the upstream.
Held(r, evs) ==
    IF evs = <<>> THEN NullInfo
    ELSE [conversation_id |-> IF r.sent.conversation_id # None
                              THEN r.sent.conversation_id ELSE nextId,
          parent_id |-> nextId + 1, email |-> NoEmail]

\* The stream is drained: work() returns (resp, 'success') with resp.email
\* set, and prompt() awaits record_chat (which returns at once without an
\* openid).
ExecSuccess(w) ==
    /\ req[w].pc = "exec"
    /\ \E evs \in Streams :
          LET r == [req[w] EXCEPT !.message = Drain(evs)]
              se == SetEmail(Held(r, evs), r.apibot)
          IN  /\ ~se.error
              /\ req' = [req EXCEPT ![w] =
                     IF RecordsChat(r.openid)
                     THEN [r EXCEPT !.resp = se.resp, !.reason = "success",
                                    !.pc = "record"]
                     ELSE Returned([r EXCEPT !.resp = se.resp], "success",
                                   users, convs)]
              /\ nextId' = IF evs = <<>> THEN nextId ELSE nextId + 2
    /\ UNCHANGED <<logins, stream, session, completion, store, lock, now, pool, lifeVars, dbVars, hits, calls, turns, faults>>

\* The stream ends before its first event: the TypeError of the
\* assignment is caught by `except Exception`.
ExecEmpty(w) ==
    /\ req[w].pc = "exec"
    /\ SetEmail(Held(req[w], <<>>), req[w].apibot).error
    /\ faults < MaxFaults
    /\ faults' = faults + 1
    /\ OnException(w)
    /\ UNCHANGED <<logins, stream, session, completion, store, lock, now, pool, lifeVars, convs, hits, nextId, calls, turns>>

\* The operation raises OpenAIError(code): work() returns at once.
ExecOpenAIError(w) ==
    /\ req[w].pc = "exec"
    /\ \E code \in ErrCodes :
          Fail(w, [req[w] EXCEPT !.err = code], Classify(code))
    /\ UNCHANGED <<logins, stream, session, completion, store, lock, now, pool, lifeVars, convs, hits, nextId, calls, turns, faults>>

\* The operation raises any other exception: retry, up to MaxRetry times.
ExecException(w) ==
    /\ req[w].pc = "exec"
    /\ faults < MaxFaults
    /\ faults' = faults + 1
    /\ OnException(w)
    /\ UNCHANGED <<logins, stream, session, completion, store, lock, now, pool, lifeVars, convs, hits, nextId, calls, turns>>

\* record_chat commits and prompt() returns the text.
RecordChat(w) ==
    /\ req[w].pc = "record"
    /\ LET r == req[w]
           db == record_chat(users, convs, r.resp.email, r.openid,
                             r.resp.conversation_id, r.resp.parent_id)
       IN  /\ users' = db.users
           /\ convs' = db.convs
           /\ req' = [req EXCEPT ![w] = Returned(r, "success", db.users, db.convs)]
    /\ UNCHANGED <<logins, stream, session, completion, store, lock, now, pool, lifeVars, hits, nextId, calls, turns, faults>>

\* The caller has taken prompt()'s result; the slot is free again.
Finish(w) ==
    /\ req[w].pc = "done"
    /\ turns < MaxTurns
    /\ turns' = turns + 1
    /\ req' = [req EXCEPT ![w] = IdleReq]
    /\ UNCHANGED <<logins, stream, session, completion, store, lock, now, pool, lifeVars, dbVars, hits, nextId, calls, faults>>

Request ==
    \E w \in Slots :
        \/ StartPrompt(w)
        \/ ChatInfo(w)
        \/ Select(w)
        \/ Test(w)
        \/ Wake(w)
        \/ Hit(w)
        \/ ExecSuccess(w)
        \/ ExecEmpty(w)
        \/ ExecOpenAIError(w)
        \/ ExecException(w)
        \/ RecordChat(w)

\* Two concurrent prompt() calls at one moment.
Next == CheckAccount \/ Request

Spec == Init /\ [][Next]_vars

\* One caller issuing prompt() after prompt() while time passes.
InitLimit == InitWith(HealthyTokens, PriorHits, {"r1"}, Off)

NextLimit ==
    \/ Tick
    \/ CheckAccount
    \/ Request
    \/ \E w \in Slots : Finish(w)

SpecLimit == InitLimit /\ [][NextLimit]_vars

\* One caller on either public path: /v1/chat/completions (api_request)
\* or /v1/chat/prompt (prompt).
InitApi == InitWith(HealthyTokens, PriorHits, {"r1"}, Off)

NextApi ==
    \/ CheckAccount
    \/ Request
    \/ \E w \in Slots : StartApi(w)

SpecApi == InitApi /\ [][NextApi]_vars

\* The steps of a call that is under way: every await of prompt(),
\* api_request() and work() returns.
Proceeds(w) ==
    \/ ChatInfo(w)
    \/ Select(w)
    \/ Test(w)
    \/ Wake(w)
    \/ Hit(w)
    \/ ExecSuccess(w)
    \/ ExecEmpty(w)
    \/ ExecOpenAIError(w)
    \/ ExecException(w)
    \/ RecordChat(w)

\* One caller whose awaited operations all terminate.
SpecApiFair ==
    /\ InitApi
    /\ [][NextApi]_vars
    /\ \A w \in Slots : WF_vars(Proceeds(w))

\* The manager restarted over a database in which u1 is anchored to a
\* conversation owned by a@x, while a@x has no access token: check_account
\* puts it on the backlog and creates no session for it.
OfflineTokens ==
    [e \in Emails |-> IF e = Accounts[1] THEN NoToken ELSE HealthyLife]

InitOffline ==
    /\ stream = IdleStream
    /\ session = NewSession
    /\ store = NoAdds
    /\ lock = FreeLock
    /\ completion = NoCompletion
    /\ logins = NoLogins
    /\ now = 0
    /\ accounts = [e \in Emails |->
                      [access_token |-> OfflineTokens[e], puid |-> None]]
    /\ pool = <<>>
    /\ wait_auth = <<>>
    /\ nextCheck = 0
    /\ nextLogin = Off
    /\ hits = [e \in Emails |-> <<>>]
    /\ req = [w \in Slots |-> IF w = SlotOrder[1] THEN IdleReq ELSE OffReq]
    /\ users = [u \in Users |-> 1]
    /\ convs = <<[current_node |-> 2, owner_email |-> Accounts[1], user |-> "u1"]>>
    /\ nextId = 3
    /\ calls = [e \in Emails |-> <<>>]
    /\ turns = 0
    /\ faults = 0

SpecOffline == InitOffline /\ [][Next]_vars

\* One response being read by __send_request: any lines, with or without
\* auto_continue.
RECURSIVE SeqsUpTo(_, _)
SeqsUpTo(S, n) ==
    IF n = 0 THEN {<<>>}
    ELSE LET shorter == SeqsUpTo(S, n - 1)
         IN  shorter \cup {Append(q, x) : q \in shorter, x \in S}

InitStream ==
    /\ session = NewSession
    /\ store = NoAdds
    /\ lock = FreeLock
    /\ completion = NoCompletion
    /\ logins = NoLogins
    /\ now = 0
    /\ accounts = [e \in Emails |-> [access_token |-> HealthyLife, puid |-> None]]
    /\ pool = <<>>
    /\ wait_auth = <<>>
    /\ nextCheck = 0
    /\ nextLogin = Off
    /\ hits = [e \in Emails |-> <<>>]
    /\ req = [w \in Slots |-> OffReq]
    /\ users = [u \in Users |-> NoRow]
    /\ convs = <<>>
    /\ nextId = 1
    /\ calls = [e \in Emails |-> <<>>]
    /\ turns = 0
    /\ faults = 0
    /\ \E ls \in SeqsUpTo(Lines, MaxLines), ac \in BOOLEAN :
          stream = [IdleStream EXCEPT !.lines = ls, !.auto_continue = ac,
                                      !.status = "reading"]

\* The next line arrives and the loop body runs on it.
ReadLine ==
    /\ stream.status = "reading"
    /\ stream.pos < Len(stream.lines)
    /\ LET l == stream.lines[stream.pos + 1]
           r == ParseLine(l)
           s == [stream EXCEPT !.pos = @ + 1]
       IN  stream' =
             IF r.kind = "skip" THEN s
             ELSE IF r.kind = "event"
             THEN [s EXCEPT !.events =
                      Append(@, [message |-> l.text, finish_details |-> l.finish])]
             ELSE IF r.kind = "done" THEN AfterLoop(s)
             ELSE [s EXCEPT !.status = IF r.kind = "fail" THEN "failed" ELSE "raised",
                            !.error = r.error, !.at = "line"]
    /\ UNCHANGED <<mgrVars, session, completion, store, lock>>

\* The response ends without "[DONE]": the loop is left.
EndOfStream ==
    /\ stream.status = "reading"
    /\ stream.pos = Len(stream.lines)
    /\ stream' = AfterLoop(stream)
    /\ UNCHANGED <<mgrVars, session, completion, store, lock>>

NextStream == ReadLine \/ EndOfStream

SpecStream == InitStream /\ [][NextStream]_vars

\* The two background loops on their own, from any mix of tokens.
LifeTokens == {NoToken, HourSecs + HourSecs \div 2, HealthyLife}

InitLife ==
    \E tokens \in [Emails -> LifeTokens] :
        InitWith(tokens, [e \in Emails |-> <<>>], {}, 0)

NextLife == Tick \/ CheckAccount \/ Login

SpecLife == InitLife /\ [][NextLife]_vars

\* The two background loops with an upstream that never refuses a login,
\* each loop scheduled again and again.
NextLifeFair == Tick \/ CheckAccount \/ LoginUpstreamUp

SpecLifeFair ==
    /\ InitLife
    /\ [][NextLifeFair]_vars
    /\ WF_vars(Tick)
    /\ WF_vars(CheckAccount)
    /\ WF_vars(LoginUpstreamUp)

\* ----------------------------------------------------- one upstream session
\* A token that does not decode as a JWT (any text that is not one).
GarbageToken == -1

\* The slugs the upstream can list on GET /models, the slug ask() falls
\* back to, and the model arguments a streaming call is made with.
Slugs == {"text-davinci-002-render-sha", "gpt-4"}
DefaultModel == "text-davinci-002-render-sha"
RequestModels == {"", "text-davinci-002-render-sha", "gpt-4", "gpt-4-mobile"}

\* AsyncBot.ask / post_messages: `model = model or <default>`.
DataModel(model) == IF model = "" THEN DefaultModel ELSE model

\* A precheck that lets every model through.
SupportsAny(model, support) == TRUE

\* __send_request goes on to the POST unless
\* `model and model not in self.support_models`.
Supports(model, support) == ~(model # "" /\ model \notin support)

\* __send_request from the precheck to the POST, with support_models equal
\* to `support` when the precheck runs after `gets` calls of models().
Prechecked(model, support, gets) ==
    [session EXCEPT
        !.support_models = support,
        !.call = [model |-> model, learned |-> session.support_models,
                  gets |-> gets,
                  posts |-> IF Supports(model, support) THEN 1 ELSE 0,
                  result |-> IF Supports(model, support)
                             THEN "posted" ELSE "unsupported_model"]]

\* A streaming call (ask) on the session, up to its POST to /conversation:
\* an empty support_models is fetched first, and models() either raises
\* the OpenAIError of a bad status or stores the slugs it was sent.
SendRequest ==
    /\ \E m \in RequestModels :
          LET model == DataModel(m)
          IN  IF session.support_models # {}
              THEN session' = Prechecked(model, session.support_models, 0)
              ELSE \/ session' = [session EXCEPT !.call =
                          [model |-> model, learned |-> {}, gets |-> 1,
                           posts |-> 0, result |-> "http_error"]]
                   \/ \E listed \in SUBSET Slugs :
                          session' = Prechecked(model, listed, 1)
    /\ UNCHANGED <<mgrVars, stream, completion, store, lock>>

\* The tokens update_account is handed: none, text that is no JWT, a JWT
\* whose exp is past, one whose exp is this second, one good for days.
SessionTokens ==
    {NoToken, GarbageToken, HourSecs \div 2, HourSecs, HealthyLife}

\* update_account(email, token, ""): the account record is changed, then
\* update_bot runs; its exception leaves update_account before the commit.
UpdateAccount ==
    /\ \E e \in Emails, tok \in SessionTokens :
          LET r == update_bot_checked(pool, e, tok, EmptyStr, now)
          IN  /\ accounts' = [accounts EXCEPT ![e] =
                                 [access_token |-> tok, puid |-> EmptyStr]]
              /\ pool' = r.pool
              /\ session' = [session EXCEPT !.built =
                     [email |-> e, token |-> tok, had |-> InPool(pool, e),
                      before |-> pool, error |-> r.error]]
    /\ UNCHANGED <<now, wait_auth, nextCheck, nextLogin, dbVars, reqVars,
                   logins, stream, completion, store, lock>>

\* A manager with no request and no background loop running, an hour
\* after the epoch.
InitSession ==
    /\ stream = IdleStream
    /\ session = NewSession
    /\ store = NoAdds
    /\ lock = FreeLock
    /\ completion = NoCompletion
    /\ logins = NoLogins
    /\ now = HourSecs
    /\ accounts = [e \in Emails |-> [access_token |-> NoToken, puid |-> None]]
    /\ pool = <<>>
    /\ wait_auth = <<>>
    /\ nextCheck = 0
    /\ nextLogin = Off
    /\ hits = [e \in Emails |-> <<>>]
    /\ req = [w \in Slots |-> OffReq]
    /\ users = [u \in Users |-> NoRow]
    /\ convs = <<>>
    /\ nextId = 1
    /\ calls = [e \in Emails |-> <<>>]
    /\ turns = 0
    /\ faults = 0

NextSession == SendRequest \/ UpdateAccount

SpecSession == InitSession /\ [][NextSession]_vars

\* ------------------------------------------------- the completion endpoint
\* An assistant text is modelled by what new_chat_completion reads from it:
\*   empty           the text is '';
\*   fc_word         the characters 'function_calls' occur in it;
\*   expl_word       the characters 'explanation' occur in it;
\*   json            "no" (json.loads raises), "string" (it gives a value
\*                   that is not an object) or "object";
\*   function_calls  for an object, its key function_calls: "absent", or
\*                   the value "null", "empty" ([]) or "calls";
\*   finish_reason   for an object, whether it has the key finish_reason.
TextShapes ==
    [empty : BOOLEAN, fc_word : BOOLEAN, expl_word : BOOLEAN,
     json : {"no", "string", "object"},
     function_calls : {"absent", "null", "empty", "calls"},
     finish_reason : {"absent", "function_call"}]

AssistantTexts ==
    {t \in TextShapes :
        /\ t.empty => (~t.fc_word /\ ~t.expl_word /\ t.json = "no")
        /\ t.json # "object" =>
              (t.function_calls = "absent" /\ t.finish_reason = "absent")
        /\ t.function_calls # "absent" => t.fc_word}

\* The requests of the public schema: the model, whether functions are
\* listed, and the role of the one message.
ApiModels == {"gpt-3.5-turbo", "gpt-4", "gpt-4-32k", "gpt-4-mobile"}
ApiRoles == {"system", "user", "assistant", "function"}
Gpt4Family == {m \in ApiModels : m # "gpt-3.5-turbo"}
KeptGpt4 ==
    {"gpt-4-browsing", "gpt-4-plugins", "gpt-4-mobile", "gpt-4-code-interpreter"}

\* convert_api_2_chatgpt
convert_api_2_chatgpt(r) ==
    [model |-> IF r.model \in Gpt4Family
               THEN (IF r.model \in KeptGpt4 THEN r.model ELSE "gpt-4")
               ELSE DefaultModel,
     messages |->
        (IF r.functions
         THEN <<[role |-> "critic", content |-> "api_prompt"]>> ELSE <<>>)
        \o <<[role |-> IF r.role \in {"system", "function"}
                       THEN "critic" ELSE r.role,
              content |-> IF r.role = "assistant" THEN "function_calls_json"
                          ELSE IF r.role = "function" THEN "function_json"
                          ELSE "content"]>>]

\* The values of the choice's content: None, or a text.
NoContent == <<>>
Content(t) == <<t>>

\* data['function_calls'] as the choice's function_call; JSON null is None.
FunctionCallOf(t) ==
    IF t.function_calls = "null" THEN "None" ELSE t.function_calls

\* The choice new_chat_completion(full_text) builds.  Inside the try,
\* function_call is assigned before data['finish_reason'] is read, and the
\* except branch sets content only.
new_chat_completion(t) ==
    IF ~t.empty /\ t.fc_word /\ t.expl_word
    THEN IF t.json # "object" \/ t.function_calls = "absent"
         THEN [content |-> Content(t), function_call |-> "None",
               finish_reason |-> "stop"]
         ELSE IF t.finish_reason = "absent"
         THEN [content |-> Content(t), function_call |-> FunctionCallOf(t),
               finish_reason |-> "stop"]
         ELSE [content |-> NoContent, function_call |-> FunctionCallOf(t),
               finish_reason |-> t.finish_reason]
    ELSE [content |-> Content(t), function_call |-> "None",
          finish_reason |-> "stop"]

\* POST /v1/chat/completions arrives: the request is translated.
Convert ==
    /\ completion.stage = "received"
    /\ completion' = [completion EXCEPT
                         !.stage = "sent",
                         !.upstream = convert_api_2_chatgpt(completion.request)]
    /\ UNCHANGED <<mgrVars, stream, session, store, lock>>

\* The upstream answers with one assistant event whose parts[0] is the
\* text; work() keeps it as resp and api_request returns
\* resp.get("message", "").
OneEvent ==
    /\ completion.stage = "sent"
    /\ completion' = [completion EXCEPT
                         !.stage = "returned",
                         !.resp = Content(completion.text)]
    /\ UNCHANGED <<mgrVars, stream, session, store, lock>>

\* completions: 404 for an empty text, else the packaged completion.
Package ==
    /\ completion.stage = "returned"
    /\ completion' =
          IF completion.resp[1].empty
          THEN [completion EXCEPT !.stage = "answered", !.http = 404]
          ELSE [completion EXCEPT
                   !.stage = "answered", !.http = 200,
                   !.choice = new_chat_completion(completion.resp[1])]
    /\ UNCHANGED <<mgrVars, stream, session, store, lock>>

InitCompletion ==
    /\ stream = IdleStream
    /\ session = NewSession
    /\ store = NoAdds
    /\ lock = FreeLock
    /\ \E t \in AssistantTexts, m \in ApiModels, f \in BOOLEAN, ro \in ApiRoles :
          completion =
             [stage |-> "received", text |-> t,
              request |-> [model |-> m, functions |-> f, role |-> ro],
              upstream |-> [model |-> "", messages |-> <<>>],
              resp |-> NoContent, http |-> 0,
              choice |-> [content |-> NoContent, function_call |-> "None",
                          finish_reason |-> ""]]
    /\ logins = NoLogins
    /\ now = 0
    /\ accounts = [e \in Emails |-> [access_token |-> HealthyLife, puid |-> None]]
    /\ pool = <<>>
    /\ wait_auth = <<>>
    /\ nextCheck = 0
    /\ nextLogin = Off
    /\ hits = [e \in Emails |-> <<>>]
    /\ req = [w \in Slots |-> OffReq]
    /\ users = [u \in Users |-> NoRow]
    /\ convs = <<>>
    /\ nextId = 1
    /\ calls = [e \in Emails |-> <<>>]
    /\ turns = 0
    /\ faults = 0

NextCompletion == Convert \/ OneEvent \/ Package

SpecCompletion == InitCompletion /\ [][NextCompletion]_vars

\* ------------------------------------------------------ one lookup at a time
\* A manager with three accounts, each with a pooled session, serving one
\* caller: every unpinned lookup runs from its first line to its return
\* with no other lookup in between.  Each account is either free or at
\* its hourly limit.
LookupAccounts == <<"a@x", "b@x", "c@x">>
LookupEmails == {LookupAccounts[i] : i \in 1..Len(LookupAccounts)}
AtLimit == [i \in 1..PerHourAmount |-> 0]

InitLookup ==
    /\ stream = IdleStream
    /\ session = NewSession
    /\ store = NoAdds
    /\ lock = FreeLock
    /\ completion = NoCompletion
    /\ logins = NoLogins
    /\ now = 0
    /\ accounts = [e \in LookupEmails |->
                      [access_token |-> HealthyLife, puid |-> None]]
    /\ pool = [i \in 1..Len(LookupAccounts) |->
                  [email |-> LookupAccounts[i], access_token |-> HealthyLife,
                   puid |-> None]]
    /\ wait_auth = <<>>
    /\ nextCheck = CheckPeriod
    /\ nextLogin = Off
    /\ hits \in [LookupEmails -> {<<>>, AtLimit}]
    /\ req = [w \in Slots |-> IF w = SlotOrder[1] THEN IdleReq ELSE OffReq]
    /\ users = [u \in Users |-> NoRow]
    /\ convs = <<>>
    /\ nextId = 1
    /\ calls = [e \in LookupEmails |-> <<>>]
    /\ turns = 0
    /\ faults = 0

NextLookup == Request \/ \E w \in Slots : Finish(w)

SpecLookup == InitLookup /\ [][NextLookup]_vars

\* The two background loops over accounts that the store holds with or
\* without a puid, and whose tokens are absent or inside the login window.
StoredPuid == 7
DueTokens == {NoToken, HourSecs + HourSecs \div 2}

InitPuid ==
    /\ stream = IdleStream
    /\ session = NewSession
    /\ store = NoAdds
    /\ lock = FreeLock
    /\ completion = NoCompletion
    /\ logins = NoLogins
    /\ now = 0
    /\ accounts \in [Emails -> [access_token : DueTokens,
                                puid : {None, StoredPuid}]]
    /\ pool = <<>>
    /\ wait_auth = <<>>
    /\ nextCheck = 0
    /\ nextLogin = 0
    /\ hits = [e \in Emails |-> <<>>]
    /\ req = [w \in Slots |-> OffReq]
    /\ users = [u \in Users |-> NoRow]
    /\ convs = <<>>
    /\ nextId = 1
    /\ calls = [e \in Emails |-> <<>>]
    /\ turns = 0
    /\ faults = 0

SpecPuid == InitPuid /\ [][NextLife]_vars

\* ------------------------------------------------------------ add_account
MaxAdds == 2

\* The emails with a row in table accounts: those load_accounts put in the
\* account map, and the inactive ones it left out.
StoreRows == DOMAIN accounts \cup store.inactive

\* The account map with the record add_account builds for a new email.
WithNewAccount(acc, e) ==
    [x \in DOMAIN acc \cup {e} |->
        IF x = e THEN [access_token |-> NoToken, puid |-> None] ELSE acc[x]]

\* ApiBotManager.add_account(e, password), as POST /admin/add_bot calls it:
\* only `if not account:` inserts the row, extends the account map and
\* awaits check_account().
AddAccount(e) ==
    /\ store.n < MaxAdds
    /\ IF e \notin StoreRows
       THEN LET acc == WithNewAccount(accounts, e)
                r == CheckFromMap(acc, 1, pool, wait_auth)
            IN  /\ accounts' = acc
                /\ pool' = r.pool
                /\ wait_auth' = SortedByValue(r.wait_auth)
                /\ store' = [store EXCEPT !.n = @ + 1,
                                !.call = [email |-> e, checked |-> TRUE]]
       ELSE /\ store' = [store EXCEPT !.n = @ + 1,
                                !.call = [email |-> e, checked |-> FALSE]]
            /\ UNCHANGED <<accounts, pool, wait_auth>>
    /\ UNCHANGED <<logins, stream, session, completion, lock, now,
                   nextCheck, nextLogin, dbVars, reqVars>>

\* The manager after init() loaded the one active account a@x; b@x has no
\* row, or a row that is not active.  The login loop is not followed.
InitAdd ==
    /\ stream = IdleStream
    /\ session = NewSession
    /\ completion = NoCompletion
    /\ logins = NoLogins
    /\ store \in {[NoAdds EXCEPT !.inactive = x] : x \in SUBSET {Accounts[2]}}
    /\ lock = FreeLock
    /\ now = 0
    /\ accounts \in [{Accounts[1]} -> [access_token : LifeTokens, puid : {None}]]
    /\ pool = <<>>
    /\ wait_auth = <<>>
    /\ nextCheck = 0
    /\ nextLogin = Off
    /\ hits = [e \in Emails |-> <<>>]
    /\ req = [w \in Slots |-> OffReq]
    /\ users = [u \in Users |-> NoRow]
    /\ convs = <<>>
    /\ nextId = 1
    /\ calls = [e \in Emails |-> <<>>]
    /\ turns = 0
    /\ faults = 0

NextAdd == Tick \/ CheckAccount \/ \E e \in Emails : AddAccount(e)

SpecAdd == InitAdd /\ [][NextAdd]_vars

\* ---------------------------------------------------------- wait_auth_lock
\* A lock that every task may enter at any time.
LockFreeAlways(l) == TRUE

\* `async with self.wait_auth_lock:` is entered when no task holds it.
LockFree(l) == l.holder = "none"

\* login_task enters the lock, finds its entry and awaits
\* asyncio.to_thread(auth.get_access_token): it is suspended holding the lock.
LoginAcquire ==
    /\ nextLogin # Off
    /\ now >= nextLogin
    /\ nextCheck > 0
    /\ LockFree(lock)
    /\ LoginCandidates(wait_auth) # {}
    /\ lock' = [holder |-> "login_task",
                email |-> wait_auth[FirstCandidate(wait_auth)][1],
                waited |-> FALSE]
    /\ UNCHANGED <<mgrVars, stream, session, completion, store>>

\* The upstream call is still running when the next health check falls due.
UpstreamTakes ==
    /\ lock.holder = "login_task"
    /\ ~lock.waited
    /\ nextCheck > now
    /\ nextCheck <= MaxNow
    /\ now' = nextCheck
    /\ lock' = [lock EXCEPT !.waited = TRUE]
    /\ UNCHANGED <<pool, lifeVars, dbVars, reqVars, logins, stream, session,
                   completion, store>>

\* get_access_token returns or raises; the rest of the round runs, the
\* lock is left and `finally` sleeps.
LoginRelease ==
    /\ lock.holder = "login_task"
    /\ lock' = FreeLock
    /\ \E s \in LoginSleeps : nextLogin' = now + s
    /\ (LoginFails \/ LoginUpdateFails \/ LoginSucceeds)
    /\ UNCHANGED <<stream, session, completion, store, now, nextCheck, dbVars,
                   reqVars>>

\* A round of login_task that finds no entry to log in: it enters and
\* leaves the lock without suspending.
LoginIdleRound ==
    /\ LockFree(lock)
    /\ LoginCandidates(wait_auth) = {}
    /\ Login

\* check_account enters the lock; nothing in its body suspends.
CheckLocked == LockFree(lock) /\ CheckAccount

NextLock ==
    \/ Tick
    \/ CheckLocked
    \/ LoginIdleRound
    \/ LoginAcquire
    \/ UpstreamTakes
    \/ LoginRelease

\* Both accounts start without a token or inside the login window.
InitLock ==
    \E tokens \in [Emails -> DueTokens] :
        InitWith(tokens, [e \in Emails |-> <<>>], {}, 0)

SpecLock == InitLock /\ [][NextLock]_vars

\* ------------------------------------------------- a login that is refused
\* The accounts whose login the upstream refuses at every attempt (a wrong
\* password).
Refused == {Accounts[1]}

\* One round of login_task with that upstream: get_access_token raises for
\* a refused account and returns a token for any other.
LoginRefusing ==
    /\ nextLogin # Off
    /\ now >= nextLogin
    /\ nextCheck > 0
    /\ \E s \in LoginSleeps : nextLogin' = now + s
    /\ \/ LoginSkip
       \/ /\ LoginCandidates(wait_auth) # {}
          /\ wait_auth[FirstCandidate(wait_auth)][1] \in Refused
          /\ LoginFails
       \/ /\ LoginCandidates(wait_auth) # {}
          /\ wait_auth[FirstCandidate(wait_auth)][1] \notin Refused
          /\ LoginSucceeds
    /\ UNCHANGED <<stream, session, completion, store, lock, now, nextCheck,
                   dbVars, reqVars>>

\* The clock is not followed past MaxNow: from there on a sleeping loop
\* wakes without the clock moving.
BeyondHorizon ==
    /\ Deadline > now
    /\ Deadline > MaxNow
    /\ nextCheck' = Min(nextCheck, now)
    /\ nextLogin' = Min(nextLogin, now)
    /\ UNCHANGED <<logins, stream, session, completion, store, lock, now,
                   accounts, pool, wait_auth, dbVars, reqVars>>

NextRefusing == Tick \/ BeyondHorizon \/ CheckAccount \/ LoginRefusing

\* Both loops are scheduled again and again, for ever.
SpecRefusing ==
    /\ InitLife
    /\ [][NextRefusing]_vars
    /\ WF_vars(Tick)
    /\ WF_vars(BeyondHorizon)
    /\ WF_vars(CheckAccount)
    /\ WF_vars(LoginRefusing)

\* ================================================================= claims

\* C1: for every account, the upstream calls work() starts on its session
\* never exceed 1 per minute and never exceed 60 per hour.
C1_CallsWithinBothRules ==
    \A e \in Emails :
        /\ WindowCount(calls[e], now, MinuteSecs) <= PerMinuteAmount
        /\ WindowCount(calls[e], now, HourSecs) <= PerHourAmount

\* C2: an upstream call is in flight only for a call of work() whose own
\* hit on the rate limiter was accepted.
C2_UpstreamOnlyAfterAcceptedHit ==
    \A w \in Slots : req[w].pc = "exec" => req[w].hitOk

\* C3: every session in the pool holds a token whose exp is later than now.
C3_PoolTokensUnexpired ==
    \A i \in 1..Len(pool) : token_expire(pool[i].access_token) > now

\* C4: when check_account has just completed, no account whose token has
\* less than 3600 seconds left has a session in the pool.
C4_NearExpiryEvicted ==
    nextCheck = now + CheckPeriod =>
        \A e \in Emails :
            (/\ accounts[e].access_token # NoToken
             /\ token_expire(accounts[e].access_token) - now < 3600)
            => ~InPool(pool, e)

\* C5: a request pinned to an email is only ever given, and only ever
\* served by, the session of that email.
C5_PinnedNeverFallsBack ==
    \A w \in Slots :
        req[w].email # NoEmail =>
            /\ req[w].cur \in {NoEmail, req[w].email}
            /\ req[w].apibot \in {NoEmail, req[w].email}
            /\ req[w].reason = "success" => req[w].resp.email = req[w].email

\* C5 witness: a pinned request timed out although another account's
\* session was in the pool and under its rate limit.
C5_Witness ==
    \E w \in Slots :
        /\ req[w].email # NoEmail
        /\ req[w].pc = "done"
        /\ req[w].reason = "timeout"
        /\ \E i \in 1..Len(pool) :
              /\ pool[i].email # req[w].email
              /\ test_limit(hits[pool[i].email], now)

\* C6: when prompt(openid) has returned after a successful turn,
\* get_chat_info(openid) gives the conversation_id and parent_id of the
\* upstream event and the email of the serving session.
C6_AnchorFollowsTurn ==
    \A w \in Slots :
        (req[w].pc = "done" /\ req[w].reason = "success"
            /\ req[w].openid # NoOpenid)
        => /\ req[w].info.conversation_id = req[w].resp.conversation_id
           /\ req[w].info.parent_id = req[w].resp.parent_id
           /\ req[w].info.email = req[w].resp.email

\* C7: when prompt(openid) has returned after the upstream answered 404,
\* the user's anchor is cleared: get_chat_info(openid) gives no
\* conversation and no email.
C7_AnchorClearedAfter404 ==
    \A w \in Slots :
        (req[w].pc = "done" /\ req[w].err = 404 /\ req[w].openid # NoOpenid)
        => /\ req[w].info.conversation_id = None
           /\ req[w].info.email = NoEmail

\* C8: a prompt with new_chat=true runs work() unpinned, and the body it
\* posts carries conversation_id = null and a newly generated
\* parent_message_id.
C8_NewChatStartsFresh ==
    \A w \in Slots :
        req[w].new_chat =>
            /\ req[w].email = NoEmail
            /\ req[w].pc = "exec" =>
                  /\ req[w].sent.conversation_id = None
                  /\ req[w].sent.parent_message_id = FreshUuid

\* C8 witness: a new_chat request is upstream while its user has an anchor.
C8_Witness ==
    \E w \in Slots :
        /\ req[w].new_chat
        /\ req[w].pc = "exec"
        /\ req[w].openid # NoOpenid
        /\ get_chat_info(users, convs, req[w].openid).conversation_id # None

\* C9: once the operation has raised an OpenAI error, work() has returned:
\* 404 gives conversation_not_found, 429 too_many_requests, any other code
\* server_error; every earlier invocation ended in a retried exception.
C9_OpenAIErrorSurfacedAtOnce ==
    \A w \in Slots :
        req[w].err # -1 =>
            /\ req[w].pc = "done"
            /\ req[w].ncalls = req[w].retry + 1
            /\ req[w].err = 404 => req[w].reason = "conversation_not_found"
            /\ req[w].err = 429 => req[w].reason = "too_many_requests"
            /\ req[w].err \notin {404, 429} => req[w].reason = "server_error"

\* C9 witness: a 429 ended a call that had already retried an exception.
C9_Witness ==
    \E w \in Slots :
        req[w].err = 429 /\ req[w].retry > 0 /\ req[w].pc = "done"

\* C10: within one work() call the operation is invoked at most 4 times,
\* each time on a session selected for that attempt, and the call returns
\* max_retry exactly when its retry counter exceeds 3.
C10_AtMostThreeRetries ==
    \A w \in Slots :
        /\ req[w].ncalls <= 4
        /\ req[w].ncalls <= req[w].nsel
        /\ req[w].pc = "exec" =>
              req[w].nsel = req[w].ncalls /\ req[w].ncalls = req[w].retry + 1
        /\ req[w].reason = "max_retry" <=> req[w].retry > 3

\* C10 witness: a call returned max_retry after its fourth invocation.
C10_Witness ==
    \E w \in Slots :
        req[w].pc = "done" /\ req[w].reason = "max_retry" /\ req[w].ncalls = 4

\* C11: a work() call during which no session was ever returned has, when
\* it returns, invoked nothing, made exactly `timeout` one-second waits and
\* returned "timeout"; while it runs it never waits more than `timeout`
\* times.
C11_TimeoutAfterExactWaits ==
    \A w \in Slots :
        /\ req[w].waits <= req[w].timeout0
        /\ (req[w].pc = "done" /\ req[w].nsel = 0)
           => /\ req[w].reason = "timeout"
              /\ req[w].ncalls = 0
              /\ req[w].waits = req[w].timeout0

\* C11 witness: a call with a positive timeout ran out of waits without a
\* session.
C11_Witness ==
    \E w \in Slots :
        /\ req[w].pc = "done" /\ req[w].nsel = 0
        /\ req[w].timeout0 > 0 /\ req[w].reason = "timeout"

\* C12: every upstream call work() has started on an account is preceded
\* by a hit of its own recorded in the rate limiter's store for that
\* account: the store gained at least one entry per call started.
C12_EveryCallHasRecordedHit ==
    \A e \in Emails : Len(calls[e]) <= Len(hits[e]) - Len(PriorHits[e])

\* C13: on both public paths, when the scheduler finished without an event
\* the core returns an empty result, no exception escapes it, and the
\* endpoint answers 404.
C13_FailureAnswers404 ==
    \A w \in Slots :
        (req[w].pc = "done" /\ req[w].reason # "success")
        => req[w].raised = "" /\ req[w].http = 404

\* C14: a prompt pinned to an account whose session is not in the pool is
\* served by no account, the scheduler's reason is bot_offline, and the
\* endpoint answers 404.
C14_PinnedMissIsBotOffline ==
    \A w \in Slots :
        (/\ req[w].pc = "done"
         /\ req[w].email # NoEmail
         /\ ~InPool(pool, req[w].email))
        => /\ req[w].ncalls = 0
           /\ req[w].reason = "bot_offline"
           /\ req[w].http = 404

\* The events a sequence of well-formed lines stands for: one per complete
\* assistant object, in order.
EventsOf(ls) ==
    LET as == SelectSeq(ls, LAMBDA l : l.form = "json" /\ l.val = "assistant")
    IN  [i \in 1..Len(as) |->
            [message |-> as[i].text, finish_details |-> as[i].finish]]

\* The events the loop body yields on a sequence of lines it runs through.
Delivered(ls) ==
    LET as == SelectSeq(ls, LAMBDA l : ParseLine(l).kind = "event")
    IN  [i \in 1..Len(as) |->
            [message |-> as[i].text, finish_details |-> as[i].finish]]

\* The lines the loop body has run on.
Consumed == SubSeq(stream.lines, 1, stream.pos)

LastEvent == stream.events[Len(stream.events)]

\* C15: when the loop is over and the last event carried finish_details
\* "max_tokens" with auto_continue set, the session has issued the continue
\* request and the call has not failed.
C15_MaxTokensIsContinued ==
    (/\ stream.status \notin {"idle", "reading"}
     /\ stream.at # "line"
     /\ stream.auto_continue
     /\ stream.events # <<>>
     /\ LastEvent.finish_details = "max_tokens")
    => stream.status = "continue"

\* C16: while every line read so far is a line that is not JSON, an object
\* of another role, a complete assistant object or [DONE], no line has
\* failed or ended the stream except [DONE], and the events delivered are
\* exactly the assistant objects read before [DONE], in order (so the last
\* message is the text of the last of them).
C16_GarbageAndOtherRolesSkipped ==
    (\A i \in 1..stream.pos :
        LET l == stream.lines[i]
        IN  \/ l.form \in {"garbage", "done"}
            \/ l.form = "json" /\ l.val \in {"role_user", "assistant"})
    => /\ stream.at # "line"
       /\ stream.events = EventsOf(Consumed)
       /\ (stream.status # "reading" /\ stream.pos < Len(stream.lines))
          => stream.lines[stream.pos].form = "done"

\* C16 witness: a stream with a non-JSON line and an object of another
\* role around an assistant object was read to its end and delivered one
\* event.
C16_Witness ==
    /\ stream.status = "ok"
    /\ stream.pos = 3
    /\ \E i, j \in 1..3 :
          /\ stream.lines[i].form = "garbage"
          /\ stream.lines[j].form = "json" /\ stream.lines[j].val = "role_user"
    /\ Len(stream.events) = 1

\* C17: whatever a line holds, the loop body ends in an event, a skip, the
\* end on [DONE] or the failure internal_server_error: a line never makes
\* the parser raise anything else.
C17_LineNeverRaisesUnclassified ==
    stream.at = "line" =>
        stream.status = "failed" /\ stream.error = "internal_server_error"

\* C18 (as stated): an object that lacks message.content is ignored: after
\* it was read the stream has not failed.
C18_LackingContentIgnored ==
    (/\ stream.pos > 0
     /\ stream.lines[stream.pos].form = "json"
     /\ stream.lines[stream.pos].val \in {"no_message", "no_content"})
    => stream.at # "line"

\* C18 (amended): an object without the key message, or whose message has
\* no key content, fails the stream with invalid_response; it produces no
\* event and no later line is read.
C18_LackingContentFailsStream ==
    (/\ stream.pos > 0
     /\ stream.lines[stream.pos].form = "json"
     /\ stream.lines[stream.pos].val \in {"no_message", "no_content"})
    => /\ stream.status = "failed"
       /\ stream.error = "invalid_response"
       /\ stream.at = "line"
       /\ stream.events = Delivered(SubSeq(stream.lines, 1, stream.pos - 1))

\* C18 witness: an object lacking message.content arrived after an
\* assistant event and before further lines.
C18_Witness ==
    /\ stream.pos = 2
    /\ Len(stream.lines) > 2
    /\ stream.lines[2].form = "json" /\ stream.lines[2].val = "no_content"
    /\ Len(stream.events) = 1
    /\ stream.error = "invalid_response"

\* C19: the first [DONE] read, with or without the "data: " prefix, is the
\* last line read: the loop is left without an error from a line, and the
\* events are those emitted before it.
C19_DoneEndsTheStream ==
    \A i \in 1..stream.pos :
        stream.lines[i].form = "done" =>
            /\ i = stream.pos
            /\ stream.status # "reading"
            /\ stream.at # "line"
            /\ stream.events = Delivered(SubSeq(stream.lines, 1, i - 1))

\* C19 witness: a prefixed [DONE] ended a stream that had delivered an
\* event, with a line still behind it.
C19_Witness ==
    /\ stream.status = "ok"
    /\ stream.pos = 2
    /\ Len(stream.lines) > 2
    /\ stream.lines[2].form = "done" /\ stream.lines[2].prefix
    /\ Len(stream.events) = 1

\* A step of login_task in which get_access_token is called.
LoginAttempt == nextLogin' # nextLogin /\ LoginCandidates(wait_auth) # {}

\* C20: an iteration of the login loop calls get_access_token at most
\* once, and a call comes at least the loop's shortest sleep after the
\* call before it.
C20_OneLoginPerIteration ==
    /\ [](logins.round <= 1)
    /\ [][LoginAttempt =>
             (logins.last = Off \/ now - logins.last >= MinuteSecs)]_vars

\* C20 witness: a login was attempted with two accounts on the backlog,
\* one minute after the attempt before it.
C20_Witness ==
    /\ logins.round = 1
    /\ Len(wait_auth) = 2
    /\ LoginCandidates(wait_auth) = {1, 2}
    /\ logins.last = now
    /\ now > 0

\* check_account has just run and found e's token less than RefreshMargin
\* seconds from its exp, an hour or more before the horizon.
FoundNearExpiry(e) ==
    /\ nextCheck = now + CheckPeriod
    /\ now + HourSecs <= MaxNow
    /\ accounts[e].access_token # NoToken
    /\ token_expire(accounts[e].access_token) - now < RefreshMargin

\* e has a session in the pool that holds the account's token, and the
\* token has not expired.
Refreshed(e) ==
    /\ InPool(pool, e)
    /\ pool[IndexOf(pool, e)].access_token = accounts[e].access_token
    /\ token_expire(accounts[e].access_token) > now

\* What the loops do achieve: the account found near expiry ends up with a
\* pooled session that holds a fresh token.
NearExpiryRefreshed ==
    \A e \in Emails : [](FoundNearExpiry(e) => <>Refreshed(e))

\* The backlog holds e as the last health check found it: with a token
\* less than RefreshMargin seconds from its exp.
OnBacklogNearExpiry(e) ==
    /\ accounts[e].access_token # NoToken
    /\ \E i \in 1..Len(wait_auth) :
          wait_auth[i][1] = e /\ wait_auth[i][2] < RefreshMargin

\* C21: with both loops scheduled fairly and every login succeeding, an
\* account whose token a health check finds within 3600 seconds of its exp
\* has its session evicted before the login loop logs it in, and ends up
\* with a session in the pool that holds the new, unexpired token.
C21_NearExpiryEvictedThenRefreshed ==
    /\ [][\A e \in Emails :
             (OnBacklogNearExpiry(e)
                 /\ nextLogin' # nextLogin /\ accounts'[e] # accounts[e])
             => ~InPool(pool, e)]_vars
    /\ NearExpiryRefreshed

\* An account is found near expiry while its session is in the pool.
FoundWhilePooled ==
    \E e \in Emails : FoundNearExpiry(e) /\ InPool(pool, e)

\* prompt() called with an openid returns the text of a successful turn to
\* slot w in this step.
ReturnsText(w) ==
    /\ req[w].pc # "done"
    /\ req'[w].pc = "done"
    /\ req'[w].reason = "success"
    /\ req'[w].openid # NoOpenid

\* C22: at the moment prompt(openid) returns the text of a turn, the anchor
\* write of that turn is in the database: the user's row holds the
\* conversation id the upstream emitted and a conversation row holds the
\* turn's parent id as current_node.
C22_AnchorCommittedBeforeReturn ==
    [][\A w \in Slots :
          ReturnsText(w) =>
             /\ users'[req'[w].openid] = req'[w].resp.conversation_id
             /\ \E c \in DOMAIN convs' :
                    convs'[c].current_node = req'[w].resp.parent_id]_vars

\* C22 witness: a prompt with an openid has returned a successful turn
\* whose anchor is in the database.
C22_Witness ==
    \E w \in Slots :
        /\ req[w].pc = "done"
        /\ req[w].reason = "success"
        /\ req[w].openid # NoOpenid
        /\ users[req[w].openid] = req[w].resp.conversation_id
        /\ \E c \in DOMAIN convs :
               convs[c].current_node = req[w].resp.parent_id

\* C23: a streaming call made on a session that already knows its slugs,
\* with a model that is not among them, ends with unsupported_model
\* without a POST to /conversation and without any other upstream call.
C23_UnsupportedModelFailsBeforePost ==
    LET c == session.call
    IN  (c.result # "none" /\ c.learned # {} /\ c.model \notin c.learned)
        => /\ c.result = "unsupported_model"
           /\ c.posts = 0
           /\ c.gets = 0

\* C23 witness: a call for gpt-4-mobile on a session that knows both
\* listed slugs was refused.
C23_Witness ==
    /\ session.call.learned = Slugs
    /\ session.call.model = "gpt-4-mobile"
    /\ session.call.result = "unsupported_model"

\* C24: when update_bot has to construct the session, a token that does
\* not decode fails the construction with invalid_token and an expired one
\* with token_expired, the pool is then as it was, without an entry for
\* the email, and a construction that goes through had a decodable token
\* whose exp is not in the past.
C24_SessionOnlyFromLiveToken ==
    LET b == session.built
    IN  (b.email # NoEmail /\ ~b.had)
        => /\ b.token <= 0 => b.error = "invalid_token"
           /\ (b.token > 0 /\ token_expire(b.token) < now)
                 => b.error = "token_expired"
           /\ b.error # "none" => (pool = b.before /\ ~InPool(pool, b.email))
           /\ b.error = "none" =>
                 /\ b.token > 0 /\ token_expire(b.token) >= now
                 /\ InPool(pool, b.email)

\* C24 witness: with a session of the other account pooled, update_bot was
\* handed an expired token for an email without session and raised.
C24_Witness ==
    /\ session.built.error = "token_expired"
    /\ ~session.built.had
    /\ Len(pool) = 1
    /\ pool = session.built.before

\* C25: the completion packaged for an assistant text carries the text
\* verbatim as content unless function_call is populated, and content and
\* function_call are never both populated.
C25_TextSurvivesRoundTrip ==
    (completion.stage = "answered" /\ completion.http = 200)
    => LET c == completion.choice
       IN  /\ c.function_call = "None" => c.content = Content(completion.text)
           /\ ~(c.content # NoContent /\ c.function_call # "None")

\* The emails of the pool, in map order.
PoolEmails == [i \in 1..Len(pool) |-> pool[i].email]

\* The unpinned lookup of slot w is suspended in test_limit.
InUnpinnedTest(w) == req[w].pc = "test" /\ ~IsPinned(req[w].email)

\* C26: during an unpinned get_available_apibot call no session is tested
\* a second time, and when the call is at its last test (so a miss makes
\* it return none) every session of the pool has been tested by it, also
\* with other calls rotating the map in between.
C26_EverySessionTestedOnce ==
    \A w \in Slots :
        InUnpinnedTest(w) =>
            /\ \A i \in 1..Len(req[w].tested) : req[w].tested[i] # req[w].cur
            /\ req[w].cnt = 0 =>
                  \A i \in 1..Len(pool) :
                      \/ pool[i].email = req[w].cur
                      \/ \E j \in 1..Len(req[w].tested) :
                             req[w].tested[j] = pool[i].email

\* The entries the unpinned lookup of slot w has visited, in visiting
\* order, the one under test included.
Visited(w) == Append(req[w].tested, req[w].cur)

\* The unpinned lookup of slot w visits an entry in this step.
Visits(w) ==
    /\ req'[w].pc = "test"
    /\ ~IsPinned(req'[w].email)
    /\ req[w].pc = "select" \/ req'[w].tested # req[w].tested

\* C27: an unpinned lookup that runs alone visits the head of the map and
\* moves it to the tail, leaving the other entries in their order; it
\* visits no entry twice, the visited entries are the tail of the map in
\* visiting order, and the set of entries of the map never changes.
C27_LookupRotatesVisitedToTail ==
    /\ [](\A w \in Slots :
            InUnpinnedTest(w) =>
               LET v == Visited(w)
                   k == Len(v)
                   n == Len(pool)
               IN  /\ k <= n
                   /\ SubSeq(PoolEmails, n - k + 1, n) = v
                   /\ \A i, j \in 1..k : i # j => v[i] # v[j])
    /\ [][/\ \A w \in Slots :
               Visits(w) => /\ req'[w].cur = pool[1].email
                            /\ pool' = Tail(pool) \o <<Head(pool)>>
           /\ {pool'[i] : i \in 1..Len(pool')} = {pool[i] : i \in 1..Len(pool)}
          ]_vars

\* C27 witness: a lookup is testing the third of three entries, having
\* moved all three to the tail in turn.
C27_Witness ==
    /\ InUnpinnedTest(SlotOrder[1])
    /\ Len(pool) = 3
    /\ Len(req[SlotOrder[1]].tested) = 2

\* record_chat runs for slot w in this step, for a user whose conversation
\* row has another conversation_id than the one the upstream emitted.
RecordsOnOtherConversation(w) ==
    /\ req[w].pc = "record"
    /\ req'[w].pc = "done"
    /\ UserConversation(users, convs, req[w].openid) # None
    /\ UserConversation(users, convs, req[w].openid) # req[w].resp.conversation_id

\* C28: when record_chat runs for a user whose conversation row has a
\* conversation_id other than the emitted one, a row for the emitted id
\* exists afterwards with current_node = parent_id and owner_email = the
\* serving account, the user points to it, and the old row is as it was.
C28_NewConversationGetsNewRow ==
    [][\A w \in Slots :
          RecordsOnOtherConversation(w) =>
             LET old == UserConversation(users, convs, req[w].openid)
                 cid == req[w].resp.conversation_id
             IN  /\ users'[req[w].openid] = cid
                 /\ cid \in DOMAIN convs'
                 /\ convs'[cid].current_node = req[w].resp.parent_id
                 /\ convs'[cid].owner_email = req[w].resp.email
                 /\ convs'[old] = convs[old]]_vars

\* login_task logs account e in in this step: the account record takes
\* the token get_access_token returned.
LoggedIn(e) == nextLogin' # nextLogin /\ accounts'[e] # accounts[e]

\* C29: the backlog is in ascending order of value whenever login_task
\* reads it, and the account an iteration logs in has the smallest
\* recorded value among the entries of at most 86400 seconds; an entry
\* above 86400 seconds is never logged in.
C29_MostUrgentLoggedInFirst ==
    /\ [](\A i, j \in 1..Len(wait_auth) :
             i < j => wait_auth[i][2] <= wait_auth[j][2])
    /\ [][\A e \in Emails :
             LoggedIn(e) =>
                \E i \in 1..Len(wait_auth) :
                    /\ wait_auth[i][1] = e
                    /\ wait_auth[i][2] <= 86400
                    /\ \A j \in 1..Len(wait_auth) :
                          wait_auth[j][2] <= 86400
                             => wait_auth[i][2] <= wait_auth[j][2]]_vars

\* C29 witness: an account has just been logged in while the other one,
\* with more seconds left but inside the one-day window, is still on the
\* backlog.
C29_Witness ==
    /\ logins.last = now
    /\ logins.round = 1
    /\ \E e \in Emails : accounts[e].access_token \in NewTokens(now)
    /\ \E i \in 1..Len(wait_auth) :
          wait_auth[i][2] > 0 /\ wait_auth[i][2] <= 86400

LoginCompleted(e) ==
    /\ nextLogin' # nextLogin
    /\ ~logins'.failed
    /\ accounts'[e] # accounts[e]

\* C31: after a successful login of an account its backlog entry is gone,
\* the account record holds the new token and an empty puid, and the pool
\* has a session for the email with the new token and no puid.
C31_LoginRefreshesAccountAndSession ==
    [][\A e \in Emails :
          LoginCompleted(e) =>
             /\ \A i \in 1..Len(wait_auth') : wait_auth'[i][1] # e
             /\ accounts'[e].access_token \in NewTokens(now)
             /\ accounts'[e].puid = EmptyStr
             /\ InPool(pool', e)
             /\ pool'[IndexOf(pool', e)].access_token = accounts'[e].access_token
             /\ pool'[IndexOf(pool', e)].puid <= 0]_vars

\* add_account(e, ...) returns in this step.
AddAccountReturns(e) == store'.n # store.n /\ store'.call.email = e

\* C32: add_account runs a health check before it returns, and on return
\* the account is in the account map and in the login backlog with value 0,
\* for a new email and for one that already has a row in the store.
C32_AddAccountChecksBeforeReturn ==
    [][\A e \in Emails :
          AddAccountReturns(e) =>
             /\ store'.call.checked
             /\ e \in DOMAIN accounts'
             /\ \E i \in 1..Len(wait_auth') : wait_auth'[i] = <<e, 0>>]_vars

\* The part of C32 about a new email.
C32_NewEmailCheckedBeforeReturn ==
    [][\A e \in Emails :
          AddAccountReturns(e) /\ e \notin StoreRows =>
             /\ store'.call.checked
             /\ e \in DOMAIN accounts'
             /\ \E i \in 1..Len(wait_auth') : wait_auth'[i] = <<e, 0>>]_vars

\* check_account ran in this step.
HealthChecked == nextCheck' # nextCheck

\* What a health check at `now` computes as the seconds account e has left.
Remaining(e) == token_expire(accounts[e].access_token) - now

HasToken(e) == accounts[e].access_token # NoToken

InBacklog(d, e) == \E i \in 1..Len(d) : d[i][1] = e

HoldsCurrentToken(p, e) ==
    InPool(p, e) /\ p[IndexOf(p, e)].access_token = accounts[e].access_token

\* C33 as stated: after a health check the login backlog contains an
\* account only if it has no token or fewer than 3600 seconds left; an
\* account with at least 3600 seconds left is not in the backlog and has a
\* session in the pool with its current token.
C33_BacklogOnlyNearExpiry ==
    [][HealthChecked =>
          \A e \in DOMAIN accounts :
             /\ InBacklog(wait_auth', e) =>
                    ~HasToken(e) \/ Remaining(e) < RefreshMargin
             /\ HasToken(e) /\ Remaining(e) >= RefreshMargin =>
                    ~InBacklog(wait_auth', e) /\ HoldsCurrentToken(pool', e)]_vars

\* C33, amended: after a health check the login backlog lists every account
\* of the account map, with value 0 when it has no token and the seconds its
\* token has left otherwise; an account with at least 3600 seconds left has
\* a session in the pool with its current token.
C33_BacklogListsEveryAccount ==
    [][HealthChecked =>
          \A e \in DOMAIN accounts :
             /\ \E i \in 1..Len(wait_auth') :
                    wait_auth'[i] = <<e, IF HasToken(e) THEN Remaining(e) ELSE 0>>
             /\ HasToken(e) /\ Remaining(e) >= RefreshMargin =>
                    HoldsCurrentToken(pool', e)]_vars

\* A health check has listed an account that has more than an hour left and
\* is pooled with its token.
C33_Witness ==
    /\ nextCheck > now
    /\ \E e \in DOMAIN accounts :
          /\ wait_auth # <<>>
          /\ \E i \in 1..Len(wait_auth) :
                wait_auth[i] = <<e, Remaining(e)>> /\ Remaining(e) >= RefreshMargin
          /\ HoldsCurrentToken(pool, e)

\* C34: every mutation of the login backlog happens under wait_auth_lock:
\* the health check edits it only when no other task is inside the lock,
\* and while login_task is inside, from choosing its entry to deleting it,
\* the only edit is that deletion.
C34_BacklogEditedUnderLock ==
    [][wait_auth' # wait_auth =>
          \/ lock.holder = "none" /\ lock'.holder = "none" /\ HealthChecked
          \/ /\ lock.holder = "login_task"
             /\ lock'.holder = "none"
             /\ wait_auth' = DictDel(wait_auth, lock.email)]_vars

\* login_task is suspended in the upstream call, holding the lock, while a
\* health check is due.
C34_Witness ==
    /\ lock.holder = "login_task"
    /\ lock.waited
    /\ now >= nextCheck
    /\ InBacklog(wait_auth, lock.email)

\* The line just read is a complete assistant object that does not start
\* with "data: ".
ReadUnprefixedAssistant ==
    /\ stream.pos > 0
    /\ stream.lines[stream.pos].form = "json"
    /\ stream.lines[stream.pos].val = "assistant"
    /\ ~stream.lines[stream.pos].prefix

\* C35: the prefix is stripped only from a line that starts with it: an
\* assistant object that does not start with "data: " is parsed as it is,
\* also when "data: " occurs inside its text, and yields its event.
C35_UnprefixedLineParsedUnchanged ==
    ReadUnprefixedAssistant =>
        /\ stream.events # <<>>
        /\ LastEvent.message = stream.lines[stream.pos].text

\* work() returns (resp, 'success') to slot w in this step.
WorkSucceeds(w) ==
    /\ req[w].pc = "exec"
    /\ req'[w].pc # "exec"
    /\ req'[w].reason = "success"

\* C36: work() returns 'success' only together with an event: the last one
\* the drained stream produced, carrying the email of the session that
\* served the call; a stream that ends without an event is never a success.
C36_SuccessCarriesLastEvent ==
    [][\A w \in Slots :
          WorkSucceeds(w) =>
             /\ req'[w].resp # NullInfo
             /\ req'[w].resp.conversation_id # None
             /\ req'[w].message = Snapshots[Len(Snapshots)]
             /\ req'[w].resp.email = req[w].apibot
             /\ req[w].apibot \in Emails]_vars

\* A call came back with the last snapshot, after an earlier stream of the
\* same call had ended without an event.
C36_Witness ==
    \E w \in Slots :
        /\ req[w].pc = "done"
        /\ req[w].reason = "success"
        /\ req[w].retry > 0
        /\ req[w].message = "full"
        /\ req[w].resp.email \in Emails

\* Slot w is inside a work() call.
InWork(w) == req[w].pc \notin {"off", "idle", "done"}

\* C37: the timeout budget of work() counts one-second waits only: inside
\* a call it changes only when a wait ends, by one; an upstream call in
\* flight and a retry leave it as it is; so what is left of it is always
\* the timeout the call was made with less the waits made, and a call
\* makes at most `timeout` waits over all its attempts.
C37_TimeoutCountsOnlyWaits ==
    /\ [](\A w \in Slots :
            req[w].pc \notin {"off", "idle"} =>
               /\ req[w].timeout = req[w].timeout0 - req[w].waits
               /\ req[w].waits <= req[w].timeout0)
    /\ [][\A w \in Slots :
            InWork(w) /\ req'[w].timeout # req[w].timeout =>
               /\ req[w].pc = "sleep"
               /\ req'[w].timeout = req[w].timeout - 1
               /\ req'[w].retry = req[w].retry]_vars

\* A call that retried after an exception and then used up its budget
\* waiting.
C37_Witness ==
    \E w \in Slots :
        /\ req[w].pc = "done"
        /\ req[w].retry > 0
        /\ req[w].waits > 0
        /\ req[w].waits = req[w].timeout0
        /\ req[w].timeout = 0

\* e is on the backlog inside the login window, its login would succeed,
\* and an account whose login is refused is on the backlog as well.
WaitsBesideRefused(e) ==
    /\ e \notin Refused
    /\ \E i \in 1..Len(wait_auth) :
          wait_auth[i][1] = e /\ ~(wait_auth[i][2] > LoginWindow)
    /\ \E x \in Refused : InBacklog(wait_auth, x)

\* e has been logged in and taken off the backlog.
LoggedInAndRemoved(e) ==
    /\ accounts[e].access_token \in NewTokens(now)
    /\ ~InBacklog(wait_auth, e)

\* C38: a failing account does not block the login loop: with the loops
\* scheduled fairly, an account that waits on the backlog inside the login
\* window and whose login would succeed is eventually logged in and removed
\* from the backlog, although the login of another backlog account fails at
\* every attempt.
C38_FailingAccountDoesNotBlock ==
    \A e \in Emails : [](WaitsBesideRefused(e) => <>LoggedInAndRemoved(e))

\* The reasons work() may return.
WorkReasons ==
    {"success", "conversation_not_found", "too_many_requests",
     "server_error", "timeout", "max_retry"}

\* work() has returned to slot w's caller.
WorkOver(w) == req[w].pc \in {"record", "done"}

\* C39: every work() call terminates when the operations it awaits do: its
\* loop runs at most timeout + 4 times, every iteration after the first
\* being paid for by a decrement of the remaining timeout or an increment of
\* the retry counter, and it ends with exactly one of the six reasons.
C39_WorkTerminates ==
    /\ [](\A w \in Slots :
            /\ req[w].iters <= req[w].timeout0 + MaxRetry + 1
            /\ WorkOver(w) => req[w].reason \in WorkReasons
            /\ InWork(w) /\ ~WorkOver(w) => req[w].reason = "")
    /\ [][\A w \in Slots :
            InWork(w) /\ req[w].iters > 0 /\ req'[w].iters = req[w].iters + 1 =>
               \/ req'[w].timeout = req[w].timeout - 1
                  /\ req'[w].retry = req[w].retry
               \/ req'[w].retry = req[w].retry + 1
                  /\ req'[w].timeout = req[w].timeout]_vars
    /\ \A w \in Slots : (InWork(w) ~> WorkOver(w))

\* A call that used every iteration it can have: it waited out its timeout
\* and then failed four times.
C39_Witness ==
    \E w \in Slots :
        /\ req[w].pc = "done"
        /\ req[w].timeout0 > 0
        /\ req[w].iters = req[w].timeout0 + MaxRetry + 1
        /\ req[w].reason = "max_retry"

\* The (email, session) pairs of the pool.
PoolPairs(p) == {p[i] : i \in 1..Len(p)}

\* A prompt() or work() call takes a step.
CallSteps == req' # req

\* C40: session selection never loses a session: whatever step a call
\* takes, in a pinned or an unpinned lookup and however the calls
\* interleave, the pool holds the same (email, session) pairs after it as
\* before, each once; no step leaves an entry popped and not reinserted.
C40_SelectionKeepsThePool ==
    [][CallSteps =>
          /\ PoolPairs(pool') = PoolPairs(pool)
          /\ Len(pool') = Len(pool)
          /\ \A i, j \in 1..Len(pool') :
                pool'[i].email = pool'[j].email => i = j]_vars

\* Two lookups are suspended in test_limit at once, each on the session it
\* popped and reinserted, and the pool has been rotated by them.
C40_Witness ==
    /\ \E w1, w2 \in Slots :
          /\ w1 # w2
          /\ req[w1].pc = "test" /\ req[w2].pc = "test"
          /\ req[w1].cur # req[w2].cur
    /\ Len(pool) = Len(Accounts)
    /\ pool[1].email # Accounts[1]

\* A pinned lookup is suspended in test_limit on its session, which it has
\* moved to the tail of the pool.
C40_PinnedLookupSuspended ==
    \E w \in Slots :
        /\ req[w].pc = "test"
        /\ IsPinned(req[w].email)
        /\ Len(pool) = Len(Accounts)
        /\ pool[Len(pool)].email = req[w].email

====
